---- MODULE Spec2Model ----
(***************************************************************************)
(* Model of 1-Stream-Telegram-Bot.py: the repeating job poll_status        *)
(* (notify_if_license_inactive, then notify_server_status) and the two     *)
(* command handlers (/status -> send_report, /start -> start), all run by  *)
(* one asyncio event loop.  A coroutine is suspended only at an `await` of *)
(* a Telegram send; everything between two awaits is run without          *)
(* interleaving, and get_data() is a blocking call.                        *)
(***************************************************************************)
EXTENDS Integers, Sequences, FiniteSets, TLC

(* ------------------------------ bounds -------------------------------- *)
\* longest server list a fetch returns
MaxServers == 2
\* number of timer polls that observe an inactive license
MaxLicensePolls == 3

(* ---------------------- values of the environment --------------------- *)
Names == {"A", "B"}
Statuses == {"online", "offline", "maintenance"}
LicenseStatuses == {"Active", "Suspended"}

\* status code tested at lines 55 and 64, and one status code that is not it
HTTP_OK == 200
HTTP_ERROR == 500

\* a server record of the server-list JSON (the two fields the notifier reads)
ServerRecords == [name : Names, health_status : Statuses]

ServerLists == UNION {[1..n -> ServerRecords] : n \in 0..MaxServers}

\* dashboard_data = {} (line 52): a dict without the key 'license'
EmptyDashboard == [has_license |-> FALSE, license_status |-> "none"]

Dashboards == {[has_license |-> TRUE, license_status |-> s] : s \in LicenseStatuses}

\* servers_data = [] (line 53)
EmptyServers == << >>

\* an HTTP response: its status code, whether .json() parses the body, and the
\* parsed body
DashboardResponses ==
    {[status_code |-> HTTP_OK, is_json |-> TRUE, body |-> d] : d \in Dashboards}
    \cup {[status_code |-> HTTP_OK, is_json |-> FALSE, body |-> EmptyDashboard],
          [status_code |-> HTTP_ERROR, is_json |-> FALSE, body |-> EmptyDashboard]}

ServersResponses ==
    {[status_code |-> HTTP_OK, is_json |-> TRUE, body |-> l] : l \in ServerLists}
    \cup {[status_code |-> HTTP_OK, is_json |-> FALSE, body |-> EmptyServers],
          [status_code |-> HTTP_ERROR, is_json |-> FALSE, body |-> EmptyServers]}

\* one server-list response of each kind, for the callers that do not read the list
ServersResponsesBrief == {r \in ServersResponses : r.body = EmptyServers}

\* the GETs of lines 49-50 are issued only after a successful login (line 45)
NotRequested == [status_code |-> 0, is_json |-> FALSE]
DashboardResponsesAfter(response_ok, url_has_dashboard) ==
    IF response_ok /\ url_has_dashboard
    THEN DashboardResponses
    ELSE {[status_code |-> NotRequested.status_code, is_json |-> FALSE,
           body |-> EmptyDashboard]}
ServersResponsesAfter(response_ok, url_has_dashboard, responses) ==
    IF response_ok /\ url_has_dashboard
    THEN responses
    ELSE {[status_code |-> NotRequested.status_code, is_json |-> FALSE,
           body |-> EmptyServers]}

\* the value None returned at line 77
None == [is_none |-> TRUE, dashboard |-> EmptyDashboard, servers |-> EmptyServers]

(* ------------------------------ get_data ------------------------------ *)
\* response.ok and "dashboard" in response.url (line 45)
LoginSucceeded(response_ok, url_has_dashboard) == response_ok /\ url_has_dashboard

\* lines 52-62: dashboard_data stays {} unless the status is 200 and the body is JSON
DashboardData(dashboard_response) ==
    IF dashboard_response.status_code = HTTP_OK
    THEN IF dashboard_response.is_json THEN dashboard_response.body ELSE EmptyDashboard
    ELSE EmptyDashboard

\* lines 53, 64-71: servers_data stays [] unless the status is 200 and the body is JSON
ServersData(servers_response) ==
    IF servers_response.status_code = HTTP_OK
    THEN IF servers_response.is_json THEN servers_response.body ELSE EmptyServers
    ELSE EmptyServers

\* get_data without the test of line 45: the two-key dict whatever the login did
get_data_unchecked_login(response_ok, url_has_dashboard, dashboard_response, servers_response) ==
    [is_none |-> FALSE,
     dashboard |-> DashboardData(dashboard_response),
     servers |-> ServersData(servers_response)]

get_data(response_ok, url_has_dashboard, dashboard_response, servers_response) ==
    IF LoginSucceeded(response_ok, url_has_dashboard)
    THEN [is_none |-> FALSE,
          dashboard |-> DashboardData(dashboard_response),
          servers |-> ServersData(servers_response)]
    ELSE None

\* `if data:` (lines 109, 119, 130): None is falsy, the two-key dict is truthy
Truthy(data) == ~data.is_none

(* ------------------------- what a fetch was given --------------------- *)
\* the kind of each of the three exchanges of one get_data call
ResponseKind(r) ==
    IF r.status_code # HTTP_OK THEN "http_error"
    ELSE IF ~r.is_json THEN "not_json" ELSE "ok"

\* what the get_data call of line 118 was given, as far as line 119 reads it
LicenseFetchKind(response_ok, url_has_dashboard, dashboard_response) ==
    IF response_ok /\ url_has_dashboard
    THEN [login |-> "ok", dashboard |-> ResponseKind(dashboard_response),
          license |-> IF ResponseKind(dashboard_response) = "ok"
                      THEN dashboard_response.body.license_status ELSE "unknown"]
    ELSE [login |-> "failed", dashboard |-> "not_requested", license |-> "unknown"]

NoLicenseFetch == [login |-> "none", dashboard |-> "not_requested", license |-> "unknown"]

\* what the get_data call of line 129 was given, as far as lines 131-154 read it
ServersFetchKind(response_ok, url_has_dashboard, servers_response) ==
    IF response_ok /\ url_has_dashboard
    THEN [login |-> "ok", servers |-> ResponseKind(servers_response)]
    ELSE [login |-> "failed", servers |-> "not_requested"]

NoServersFetch == [login |-> "none", servers |-> "not_requested"]

(* ------------------------------ StatusMap ----------------------------- *)
\* prev_server_statuses = {} (line 26)
EmptyMap == [n \in {} |-> "online"]

\* current_statuses[server_name] = health_status (line 137)
Put(m, k, v) == [n \in (DOMAIN m) \cup {k} |-> IF n = k THEN v ELSE m[n]]

\* line 140 comparing only whether the status is "online"
Changed_online_flip(prev, server_name, health_status) ==
    /\ server_name \in DOMAIN prev
    /\ (prev[server_name] = "online") # (health_status = "online")

\* line 140 without the membership test: a name seen for the first time counts
Changed_or_new(prev, server_name, health_status) ==
    \/ server_name \notin DOMAIN prev
    \/ prev[server_name] # health_status

\* line 140 notifying a known server whenever it is not online
Changed_or_down(prev, server_name, health_status) ==
    /\ server_name \in DOMAIN prev
    /\ (prev[server_name] # health_status \/ health_status # "online")

\* line 140: the condition under which a record is notified
Changed(prev, server_name, health_status) ==
    /\ server_name \in DOMAIN prev
    /\ prev[server_name] # health_status

\* lines 141-152: the message sent for a changed record (idx: its place in the list)
AlertFor(server_name, health_status, idx) ==
    IF health_status # "online"
    THEN [kind |-> "DEGRADED", name |-> server_name, status |-> health_status,
          idx |-> idx, delivered |-> FALSE]
    ELSE [kind |-> "RECOVERED", name |-> server_name, status |-> health_status,
          idx |-> idx, delivered |-> FALSE]

\* line 154 as an update: keys that are not in the new map are kept
Merged(prev, current) ==
    [n \in (DOMAIN prev) \cup (DOMAIN current) |->
        IF n \in DOMAIN current THEN current[n] ELSE prev[n]]

\* line 154: the map that takes the place of prev_server_statuses
Replaced(prev, current) == current

\* lines 120-124: the license message
LicenseAlert ==
    [kind |-> "LICENSE", name |-> "", status |-> "", idx |-> 0, delivered |-> FALSE]

\* data['dashboard']['license'] (line 119) raises KeyError on {}
LicenseKeyError(data) == ~data.dashboard.has_license

\* line 119 comparing with 'active': no status equals it
LicenseInactive_lowercase(data) == data.dashboard.license_status # "active"

\* data['dashboard']['license']['status'] != 'Active' (line 119)
LicenseInactive(data) == data.dashboard.license_status # "Active"

\* what get_data is given before any call: a failed login
NoInput == [response_ok |-> FALSE, url_has_dashboard |-> FALSE,
            dashboard_response |-> CHOOSE r \in DashboardResponses : r.status_code # HTTP_OK,
            servers_response |-> CHOOSE r \in ServersResponses : r.status_code # HTTP_OK]

(* ------------------------------- state -------------------------------- *)
VARIABLES
    prev_server_statuses,  \* the global of line 26
    pc,                    \* where the poll_status job is
    servers,               \* notify_server_status: servers (line 131)
    current_statuses,      \* notify_server_status: current_statuses (line 132)
    i,                     \* notify_server_status: position of the for loop (line 134)
    hpc,                   \* where the command handler in progress is
    alerts,                \* send_message calls of the notify_* call in progress or
                           \* last ended, in order
    prev0,                 \* prev_server_statuses when the job's current run started
    outcome,               \* how the job's current run ended
    licFetch,              \* what the get_data call of line 118 was given
    srvFetch,              \* what the get_data call of line 129 was given
    licPolls,              \* runs whose line-118 fetch returned an inactive license
    licAlerts,             \* license messages sent so far
    redo,                  \* the last run aborted inside the diff loop, until the
                           \* next run that fetches a server list
    fetch_in,              \* get_data on its own: what the call was given
    fetch_out              \* get_data on its own: what the call returned

vars == <<prev_server_statuses, pc, servers, current_statuses, i, hpc, alerts, prev0,
          outcome, licFetch, srvFetch, licPolls, licAlerts, redo, fetch_in, fetch_out>>

NoRedo == [set |-> FALSE, servers |-> EmptyServers, alerts |-> {}]

\* an alert without its delivery flag and list position
Msg(a) == [kind |-> a.kind, name |-> a.name, status |-> a.status]
Range(s) == {s[k] : k \in 1..Len(s)}
TransitionAlerts(log) == {a \in Range(log) : a.kind \in {"DEGRADED", "RECOVERED"}}
LicenseAlerts(log) == {a \in Range(log) : a.kind = "LICENSE"}

\* the job is suspended at an await, or not running
JobSuspended == pc \in {"idle", "license_await", "alert_await"}

Init ==
    /\ prev_server_statuses = EmptyMap
    /\ pc = "idle"
    /\ servers = EmptyServers
    /\ current_statuses = EmptyMap
    /\ i = 0
    /\ hpc = "idle"
    /\ alerts = << >>
    /\ prev0 = EmptyMap
    /\ outcome = "none"
    /\ licFetch = NoLicenseFetch
    /\ srvFetch = NoServersFetch
    /\ licPolls = 0
    /\ licAlerts = 0
    /\ redo = NoRedo
    /\ fetch_in = NoInput
    /\ fetch_out = None

(* --------------------------- the repeating job ------------------------ *)
\* mark the last send_message call of the log as delivered
Delivered(log) == [log EXCEPT ![Len(log)].delivered = TRUE]

\* poll_status starts (line 176) and runs notify_if_license_inactive (lines
\* 117-124) up to its await, or to its end when nothing is sent; the job queue
\* starts a run only when the run before has ended.  A KeyError at line 119
\* ends the run: the job queue logs it and line 158 is not reached
JobStart ==
    /\ pc = "idle"
    /\ \E response_ok \in BOOLEAN, url_has_dashboard \in BOOLEAN :
       \E dashboard_response \in DashboardResponsesAfter(response_ok, url_has_dashboard),
          servers_response \in ServersResponsesAfter(response_ok, url_has_dashboard,
                                                     ServersResponsesBrief) :
        LET data == get_data(response_ok, url_has_dashboard, dashboard_response,
                             servers_response)
        IN  /\ licFetch' = LicenseFetchKind(response_ok, url_has_dashboard,
                                            dashboard_response)
            /\ IF ~Truthy(data)
               THEN /\ pc' = "fetch_servers"
                    /\ outcome' = "running"
                    /\ alerts' = << >>
               ELSE IF LicenseKeyError(data)
               THEN /\ pc' = "idle"
                    /\ outcome' = "license_keyerror"
                    /\ alerts' = << >>
               ELSE IF LicenseInactive(data)
               THEN /\ pc' = "license_await"
                    /\ outcome' = "running"
                    /\ alerts' = <<LicenseAlert>>
               ELSE /\ pc' = "fetch_servers"
                    /\ outcome' = "running"
                    /\ alerts' = << >>
    /\ prev0' = prev_server_statuses
    /\ srvFetch' = NoServersFetch
    /\ servers' = EmptyServers
    /\ current_statuses' = EmptyMap
    /\ i' = 0
    /\ UNCHANGED <<prev_server_statuses, hpc>>

\* the send_message of line 120 returns or raises; an exception leaves
\* poll_status, so line 158 is not reached
LicenseSendDone ==
    /\ pc = "license_await"
    /\ \E ok \in BOOLEAN :
        IF ok
        THEN /\ pc' = "fetch_servers"
             /\ alerts' = Delivered(alerts)
             /\ outcome' = outcome
        ELSE /\ pc' = "idle"
             /\ alerts' = alerts
             /\ outcome' = "license_send_failed"
    /\ UNCHANGED <<prev_server_statuses, servers, current_statuses, i, hpc, prev0,
                   licFetch, srvFetch>>

\* notify_server_status, lines 129-132
FetchServers ==
    /\ pc = "fetch_servers"
    /\ \E response_ok \in BOOLEAN, url_has_dashboard \in BOOLEAN :
       \E dashboard_response \in DashboardResponsesAfter(response_ok, url_has_dashboard),
          servers_response \in ServersResponsesAfter(response_ok, url_has_dashboard,
                                                     ServersResponses) :
        LET data == get_data(response_ok, url_has_dashboard, dashboard_response,
                             servers_response)
        IN  /\ srvFetch' = ServersFetchKind(response_ok, url_has_dashboard,
                                            servers_response)
            /\ IF Truthy(data)
               THEN /\ servers' = data.servers
                    /\ pc' = "loop"
                    /\ i' = 1
                    /\ outcome' = outcome
               ELSE /\ servers' = servers
                    /\ pc' = "idle"
                    /\ i' = i
                    /\ outcome' = "login_failed"
    /\ current_statuses' = EmptyMap
    /\ alerts' = << >>
    /\ licFetch' = NoLicenseFetch
    /\ UNCHANGED <<prev_server_statuses, hpc, prev0>>

\* one pass of the for loop (lines 134-152) up to its await, or, after the
\* last record, the assignment of line 154
LoopStep ==
    /\ pc = "loop"
    /\ IF i > Len(servers)
       THEN /\ prev_server_statuses' = Replaced(prev_server_statuses, current_statuses)
            /\ pc' = "idle"
            /\ outcome' = "completed"
            /\ UNCHANGED <<current_statuses, i, alerts>>
       ELSE LET server_name == servers[i].name
                health_status == servers[i].health_status
            IN  /\ current_statuses' = Put(current_statuses, server_name, health_status)
                /\ IF Changed(prev_server_statuses, server_name, health_status)
                   THEN /\ alerts' = Append(alerts, AlertFor(server_name, health_status, i))
                        /\ pc' = "alert_await"
                        /\ i' = i
                   ELSE /\ alerts' = alerts
                        /\ pc' = pc
                        /\ i' = i + 1
                /\ UNCHANGED <<prev_server_statuses, outcome>>
    /\ UNCHANGED <<servers, hpc, prev0, licFetch, srvFetch>>

\* the send_message of line 142 or 148 returns or raises; an exception leaves
\* the loop, so line 154 is not reached
AlertSendDone ==
    /\ pc = "alert_await"
    /\ \E ok \in BOOLEAN :
        IF ok
        THEN /\ pc' = "loop"
             /\ i' = i + 1
             /\ alerts' = Delivered(alerts)
             /\ outcome' = outcome
        ELSE /\ pc' = "idle"
             /\ i' = i
             /\ alerts' = alerts
             /\ outcome' = "alert_send_failed"
    /\ UNCHANGED <<prev_server_statuses, servers, current_statuses, hpc, prev0,
                   licFetch, srvFetch>>

(* -------------------------- command handlers -------------------------- *)
jobVars == <<prev_server_statuses, pc, servers, current_statuses, i, alerts, prev0,
             outcome, licFetch, srvFetch>>

\* send_report that also stores the statuses it fetched in prev_server_statuses
SendReport_storing ==
    /\ hpc = "idle"
    /\ JobSuspended
    /\ \E response_ok \in BOOLEAN, url_has_dashboard \in BOOLEAN :
       \E dashboard_response \in DashboardResponsesAfter(response_ok, url_has_dashboard),
          servers_response \in ServersResponsesAfter(response_ok, url_has_dashboard,
                                                     ServersResponses) :
        LET data == get_data(response_ok, url_has_dashboard, dashboard_response,
                             servers_response)
        IN  IF Truthy(data) /\ ~LicenseKeyError(data)
            THEN /\ hpc' = "status_await"
                 /\ prev_server_statuses' =
                        [n \in {data.servers[k].name : k \in 1..Len(data.servers)} |->
                            (CHOOSE r \in Range(data.servers) : r.name = n).health_status]
            ELSE /\ hpc' = "idle"
                 /\ prev_server_statuses' = prev_server_statuses
    /\ UNCHANGED <<pc, servers, current_statuses, i, alerts, prev0, outcome, licFetch,
                   srvFetch>>

\* /status: send_report (lines 106-115) up to its await; format_dashboard_stats
\* raises KeyError on a dashboard of {}, and nothing is sent when data is None
SendReport ==
    /\ hpc = "idle"
    /\ JobSuspended
    /\ \E response_ok \in BOOLEAN, url_has_dashboard \in BOOLEAN :
       \E dashboard_response \in DashboardResponsesAfter(response_ok, url_has_dashboard),
          servers_response \in ServersResponsesAfter(response_ok, url_has_dashboard,
                                                     ServersResponsesBrief) :
        LET data == get_data(response_ok, url_has_dashboard, dashboard_response,
                             servers_response)
        IN  hpc' = IF Truthy(data) /\ ~LicenseKeyError(data)
                   THEN "status_await" ELSE "idle"
    /\ UNCHANGED jobVars

\* /start: start (lines 160-161) up to its await
Start ==
    /\ hpc = "idle"
    /\ JobSuspended
    /\ hpc' = "start_await"
    /\ UNCHANGED jobVars

\* the reply of line 115 or 161 returns or raises; the handler ends either way
ReplyDone ==
    /\ hpc \in {"status_await", "start_await"}
    /\ JobSuspended
    /\ hpc' = "idle"
    /\ UNCHANGED jobVars

(* ------------------------ counting license polls ---------------------- *)
licenseCounters == <<licPolls, licAlerts>>

\* joined to JobStart: one more run that was given an inactive license, and one
\* more license message when the run reaches the send_message of line 120
CountLicense ==
    LET observed == IF licFetch'.dashboard = "ok" /\ licFetch'.license # "Active"
                    THEN 1 ELSE 0
        sent == Cardinality({k \in 1..Len(alerts') : alerts'[k].kind = "LICENSE"})
    IN  /\ licPolls + observed <= MaxLicensePolls
        /\ licPolls' = licPolls + observed
        /\ licAlerts' = licAlerts + sent

(* ----------------- remembering a run aborted in the loop -------------- *)
\* joined to AlertSendDone: a raise inside the loop leaves an aborted run behind
RecordRedo ==
    redo' = IF outcome' = "alert_send_failed"
            THEN [set |-> TRUE, servers |-> servers,
                  alerts |-> {Msg(a) : a \in TransitionAlerts(alerts)}]
            ELSE redo

\* joined to FetchServers: a run that fetches another server list ends the wait
CompareRedo ==
    redo' = IF redo.set /\ srvFetch'.servers = "ok" /\ servers' # redo.servers
            THEN NoRedo ELSE redo

\* joined to JobStart: the run before fetched the same list and ran to its end
ForgetRedo ==
    redo' = IF outcome = "completed" /\ srvFetch.servers = "ok" THEN NoRedo ELSE redo

(* ----------------------------- specifications ------------------------- *)
Next ==
    \/ JobStart /\ CountLicense /\ UNCHANGED <<redo, fetch_in, fetch_out>>
    \/ LicenseSendDone /\ UNCHANGED <<licenseCounters, redo, fetch_in, fetch_out>>
    \/ FetchServers /\ UNCHANGED <<licenseCounters, redo, fetch_in, fetch_out>>
    \/ LoopStep /\ UNCHANGED <<licenseCounters, redo, fetch_in, fetch_out>>
    \/ AlertSendDone /\ UNCHANGED <<licenseCounters, redo, fetch_in, fetch_out>>
    \/ SendReport /\ UNCHANGED <<licenseCounters, redo, fetch_in, fetch_out>>
    \/ Start /\ UNCHANGED <<licenseCounters, redo, fetch_in, fetch_out>>
    \/ ReplyDone /\ UNCHANGED <<licenseCounters, redo, fetch_in, fetch_out>>

Spec == Init /\ [][Next]_vars

\* the same program, remembering the runs aborted in the diff loop instead of
\* counting license polls
NextRedo ==
    \/ JobStart /\ ForgetRedo /\ UNCHANGED <<licenseCounters, fetch_in, fetch_out>>
    \/ LicenseSendDone /\ UNCHANGED <<licenseCounters, redo, fetch_in, fetch_out>>
    \/ FetchServers /\ CompareRedo /\ UNCHANGED <<licenseCounters, fetch_in, fetch_out>>
    \/ LoopStep /\ UNCHANGED <<licenseCounters, redo, fetch_in, fetch_out>>
    \/ AlertSendDone /\ RecordRedo /\ UNCHANGED <<licenseCounters, fetch_in, fetch_out>>
    \/ SendReport /\ UNCHANGED <<licenseCounters, redo, fetch_in, fetch_out>>
    \/ Start /\ UNCHANGED <<licenseCounters, redo, fetch_in, fetch_out>>
    \/ ReplyDone /\ UNCHANGED <<licenseCounters, redo, fetch_in, fetch_out>>

SpecRedo == Init /\ [][NextRedo]_vars

\* get_data alone, on every input
FetchInputs ==
    {in \in [response_ok : BOOLEAN, url_has_dashboard : BOOLEAN,
             dashboard_response : DashboardResponses,
             servers_response : ServersResponses] : TRUE}

CallGetData ==
    /\ \E in \in FetchInputs :
        /\ fetch_in' = in
        /\ fetch_out' = get_data(in.response_ok, in.url_has_dashboard,
                                 in.dashboard_response, in.servers_response)
    /\ UNCHANGED <<jobVars, hpc, licenseCounters, redo>>

SpecFetch == Init /\ [][CallGetData]_vars

(* ============================== properties ============================ *)
\* the names of a server list
NamesOf(list) == {list[k].name : k \in 1..Len(list)}

\* the place of the last record of a list that carries a name
LastIndex(list, n) ==
    CHOOSE k \in 1..Len(list) :
        list[k].name = n /\ \A j \in (k + 1)..Len(list) : list[j].name # n

\* the mapping {name -> health_status} of a server list (a later record of a
\* name overrides an earlier one, as in a dict)
MapOf(list) == [n \in NamesOf(list) |-> list[LastIndex(list, n)].health_status]

DistinctNames(list) ==
    \A j, k \in 1..Len(list) : j # k => list[j].name # list[k].name

\* the record's name is a key of the map, with another status stored
Qualifies(map, record) ==
    record.name \in DOMAIN map /\ map[record.name] # record.health_status

\* the send_message calls made for the k-th record of the fetched list
AlertsAt(k) == {j \in 1..Len(alerts) : alerts[j].idx = k}

\* exactly one alert was sent for the k-th record: DEGRADED with the new status
\* when it is not online, RECOVERED when it is
ExactlyOneAlert(k) ==
    /\ Cardinality(AlertsAt(k)) = 1
    /\ \A j \in AlertsAt(k) :
        /\ alerts[j].name = servers[k].name
        /\ alerts[j].status = servers[k].health_status
        /\ alerts[j].kind = IF servers[k].health_status = "online"
                            THEN "RECOVERED" ELSE "DEGRADED"

\* a run of the job has ended after notify_server_status got data
DifferEnded == pc = "idle" /\ outcome \in {"completed", "alert_send_failed"}
Completed == pc = "idle" /\ outcome = "completed"

\* the records of the fetched list the for loop has taken up so far
Reached ==
    IF pc = "loop" \/ Completed THEN i - 1
    ELSE IF pc = "alert_await" \/ DifferEnded THEN i
    ELSE 0

(* ---- C1 ---- *)
\* C1 as stated (on the lists of distinct names): in every run whose fetch succeeded, every record of the fetched
\* list whose name is a key of StatusMap with another status stored gets exactly
\* one alert, DEGRADED with the new status or RECOVERED
C1_AsStated ==
    (DifferEnded /\ DistinctNames(servers)) =>
        \A k \in 1..Len(servers) : Qualifies(prev0, servers[k]) => ExactlyOneAlert(k)

\* C1 amended: the same for every record the diff loop has taken up (all of
\* them when the run completes); a record that does not qualify gets no alert,
\* and a record the loop did not reach, because an earlier send raised, gets none
C1_AlertPerReachedRecord ==
    /\ \A k \in 1..Len(servers) :
        IF k <= Reached /\ Qualifies(prev0, servers[k])
        THEN ExactlyOneAlert(k)
        ELSE AlertsAt(k) = {}
    /\ Completed => Reached = Len(servers)
    /\ Len(alerts) = Cardinality(UNION {AlertsAt(k) : k \in 0..Len(servers)})

\* a completed run that sent a DEGRADED alert for a change between two statuses
\* that are not online, and a RECOVERED alert
C1_Witness ==
    /\ Completed
    /\ \E a \in Range(alerts) : a.kind = "DEGRADED" /\ prev0[a.name] # "online"
    /\ \E a \in Range(alerts) : a.kind = "RECOVERED"

(* ---- C2 ---- *)
\* C2: a run that starts with an empty StatusMap sends no DEGRADED or RECOVERED
\* alert whatever it fetches, runs to its end, and leaves StatusMap mapping
\* exactly each fetched name to its health_status
C2_FirstPoll ==
    (srvFetch.login = "ok" /\ prev0 = EmptyMap) =>
        /\ TransitionAlerts(alerts) = {}
        /\ outcome # "alert_send_failed"
        /\ Completed => prev_server_statuses = MapOf(servers)

C2_Witness ==
    /\ Completed
    /\ prev0 = EmptyMap
    /\ Len(servers) = MaxServers
    /\ \E k \in 1..Len(servers) : servers[k].health_status # "online"
    /\ DOMAIN prev_server_statuses = Names

(* ---- C3 ---- *)
\* C3 as stated: a run that fetches a list whose name-to-status mapping equals
\* StatusMap sends no alert and leaves StatusMap as it was
C3_AsStated ==
    (Completed /\ MapOf(servers) = prev0) =>
        (alerts = << >> /\ prev_server_statuses = prev0)

\* every record of the list carries the status StatusMap stores for its name,
\* and every key of StatusMap is in the list
SameStatuses(list, map) ==
    /\ \A k \in 1..Len(list) :
        list[k].name \in DOMAIN map /\ map[list[k].name] = list[k].health_status
    /\ DOMAIN map = NamesOf(list)

\* C3 amended: a run that fetches a list every record of which carries the
\* status StatusMap stores for its name (all keys present) sends no alert, runs
\* to its end and leaves StatusMap as it was
C3_NoChange ==
    (srvFetch.login = "ok" /\ SameStatuses(servers, prev0)) =>
        /\ alerts = << >>
        /\ pc = "loop" \/ Completed
        /\ prev_server_statuses = prev0

\* a server that stayed offline: nothing is sent for it
C3_Witness ==
    /\ Completed
    /\ SameStatuses(servers, prev0)
    /\ \E n \in DOMAIN prev0 : prev0[n] = "offline"
    /\ alerts = << >>

(* ---- C4 ---- *)
\* C4: after a run in which the diff loop ran to its end, StatusMap is exactly
\* the mapping of the fetched list; a key of the former StatusMap that is not
\* in the list is gone, and no alert was sent for it
C4_Replaced ==
    Completed =>
        /\ prev_server_statuses = MapOf(servers)
        /\ \A n \in (DOMAIN prev0) \ NamesOf(servers) :
            /\ n \notin DOMAIN prev_server_statuses
            /\ \A a \in Range(alerts) : a.name # n

C4_Witness ==
    /\ Completed
    /\ servers # << >>
    /\ \E n \in DOMAIN prev0 : n \notin NamesOf(servers)
    /\ alerts # << >>

(* ---- C5 ---- *)
\* C5: when get_data returns None for a failed login, the diff loop does not
\* run for that fetch, nothing is sent, and StatusMap keeps its value
C5_LoginFailure ==
    /\ srvFetch.login = "failed" =>
        /\ pc = "idle" /\ outcome = "login_failed"
        /\ i = 0 /\ current_statuses = EmptyMap
        /\ alerts = << >>
        /\ prev_server_statuses = prev0
    /\ licFetch.login = "failed" => (alerts = << >> /\ prev_server_statuses = prev0)

C5_Witness ==
    /\ srvFetch.login = "failed"
    /\ prev0 # EmptyMap
    /\ \E n \in DOMAIN prev0 : prev0[n] # "online"

(* ---- C6 ---- *)
\* C6 as stated: whatever fails in the fetch of a run (the login, the status
\* code or the body of the server list), StatusMap after the run is StatusMap
\* before it
C6_AsStated ==
    (pc = "idle" /\ (srvFetch.login = "failed"
                      \/ srvFetch.servers \in {"http_error", "not_json"})) =>
        prev_server_statuses = prev0

(* ---- C7 ---- *)
\* C7 as stated: get_data returns {dashboard, servers} only when the login and
\* both fetches succeed, and the failure signal whenever one of them fails
C7_AsStated ==
    LET full == /\ fetch_in.response_ok /\ fetch_in.url_has_dashboard
                /\ ResponseKind(fetch_in.dashboard_response) = "ok"
                /\ ResponseKind(fetch_in.servers_response) = "ok"
    IN  IF full
        THEN fetch_out = [is_none |-> FALSE,
                          dashboard |-> fetch_in.dashboard_response.body,
                          servers |-> fetch_in.servers_response.body]
        ELSE fetch_out = None

(* ---- C8 ---- *)
\* C8: a run whose fetch returned a license status other than Active sends
\* exactly one license message, whatever earlier runs saw; a run whose license
\* is Active sends none; so the license messages sent are as many as the runs
\* that saw an inactive license
C8_LicenseRepeats ==
    /\ (licFetch.dashboard = "ok" /\ licFetch.license # "Active") =>
            (Len(alerts) = 1 /\ alerts[1].kind = "LICENSE")
    /\ (licFetch.dashboard = "ok" /\ licFetch.license = "Active") => alerts = << >>
    /\ licAlerts = licPolls

C8_Witness ==
    /\ licPolls = MaxLicensePolls
    /\ licAlerts = MaxLicensePolls
    /\ pc = "license_await"

(* ---- C9 ---- *)
\* C9: StatusMap changes only in the step that ends the diff loop of the job,
\* once every alert of the run has been sent; no step of a command handler
\* changes it, and while a run is under way, or after a run that did not reach
\* the end of the loop, StatusMap is what it was when the run started
C9_SingleWriter ==
    /\ [][prev_server_statuses' # prev_server_statuses =>
            /\ pc = "loop" /\ i > Len(servers)
            /\ \A a \in Range(alerts) : a.delivered
            /\ pc' = "idle" /\ outcome' = "completed"
            /\ hpc' = hpc]_vars
    /\ [](~Completed => prev_server_statuses = prev0)

\* a /status request being answered while the job is suspended at an alert
C9_Witness ==
    /\ pc = "alert_await"
    /\ hpc = "status_await"
    /\ prev_server_statuses # EmptyMap
    /\ i > 1

(* ---- C10 ---- *)
\* C10 as stated: a run aborted in the diff loop leaves StatusMap as it was, and
\* the next run that fetches the same server list and runs to its end sends
\* again every alert the aborted run had sent
C10_AsStated ==
    /\ (pc = "idle" /\ outcome = "alert_send_failed") => prev_server_statuses = prev0
    /\ (Completed /\ srvFetch.servers = "ok" /\ redo.set /\ redo.servers = servers) =>
            redo.alerts \subseteq {Msg(a) : a \in TransitionAlerts(alerts)}

====
